---- MODULE Spec2Model ----
(***************************************************************************)
(* A model of samtools fixmate (bam_mate.c): the CIGAR trimmer, the record *)
(* sanitizer, the mate synchroniser, the template batch reader and the     *)
(* driver loop of bam_mating_core.                                         *)
(*                                                                         *)
(* A record (bam1_t) is modelled by the fields the code reads and writes:  *)
(*   name   qname                      flag   set of flag bits             *)
(*   tid pos qual mtid mpos isize      core fields                         *)
(*   cigar  sequence of [op, len]      aux    the auxiliary bytes          *)
(*   l_data m_data                     used and allocated bytes of data    *)
(*   id     position in the input stream (history, not program state)      *)
(* A flag word is a set of bit names: `flag |= X` is union, `flag &= ~X`   *)
(* is set difference, `flag & X` is membership.                            *)
(***************************************************************************)
EXTENDS Integers, Sequences, FiniteSets, TLC

VARIABLES
    pc,       \* where bam_mating_core is
    bs,       \* the bam_set: b (slot k is b[k+1]), n, ba, b_next, eof
    nt,       \* next_template's locals: name, and whether it dangles
    opts,     \* remove_reads, proper_pair_check, sanitize_flags
    decoded,  \* history: the records sam_read1 delivered, in order
    groups,   \* history: the ids of each template returned
    fixed,    \* history: each template's records after the fixups
    written,  \* history: the records passed to sam_write1, in order
    call      \* a single call of bam_trim, bam_sanitize or the pair fixup

vars == <<pc, bs, nt, opts, decoded, groups, fixed, written, call>>

(*************************** bounds of the model ***************************)
MaxCigar == 3
MaxOpLen == 2
MaxEnd == 3
MaxRecords == 3
MaxAux == 2

(****************************** flag bits **********************************)
BAM_FPAIRED == "PAIRED"
BAM_FPROPER_PAIR == "PROPER_PAIR"
BAM_FUNMAP == "UNMAP"
BAM_FMUNMAP == "MUNMAP"
BAM_FREVERSE == "REVERSE"
BAM_FMREVERSE == "MREVERSE"
BAM_FSECONDARY == "SECONDARY"
BAM_FSUPPLEMENTARY == "SUPPLEMENTARY"

(************************* sanitizer categories ****************************)
FIX_POS == "pos"
FIX_MQUAL == "mqual"
FIX_UNMAP == "unmap"
FIX_CIGAR == "cigar"
FIX_AUX == "aux"
FIX_ALL == {FIX_POS, FIX_MQUAL, FIX_UNMAP, FIX_CIGAR, FIX_AUX}
FIX_ON == {FIX_MQUAL, FIX_UNMAP, FIX_CIGAR, FIX_AUX}

(******************************* CIGAR *************************************)
BAM_CSOFT_CLIP == "S"
BAM_CHARD_CLIP == "H"

\* bam_cigar_type: bit 1 = consumes query, bit 2 = consumes reference
bam_cigar_type(op) ==
    CASE op \in {"M", "=", "X"} -> 3
      [] op \in {"I", "S"} -> 1
      [] op \in {"D", "N"} -> 2
      [] OTHER -> 0

ConsumesRef(op) == bam_cigar_type(op) \in {2, 3}

ConsumesQuery(op) == bam_cigar_type(op) \in {1, 3}

bam_cigar_gen(l, o) == [op |-> o, len |-> l]

RECURSIVE bam_cigar2rlen(_)
bam_cigar2rlen(cigar) ==
    IF cigar = <<>> THEN 0
    ELSE (IF ConsumesRef(Head(cigar).op) THEN Head(cigar).len ELSE 0)
         + bam_cigar2rlen(Tail(cigar))

RECURSIVE bam_cigar2qlen(_)
bam_cigar2qlen(cigar) ==
    IF cigar = <<>> THEN 0
    ELSE (IF ConsumesQuery(Head(cigar).op) THEN Head(cigar).len ELSE 0)
         + bam_cigar2qlen(Tail(cigar))

\* htslib bam_endpos: an unmapped record or one with no reference-consuming
\* operation has length 1.
bam_endpos(b) ==
    LET rlen == IF BAM_FUNMAP \in b.flag THEN 0 ELSE bam_cigar2rlen(b.cigar)
    IN  b.pos + (IF rlen = 0 THEN 1 ELSE rlen)

(****************************** bam_trim ***********************************)
\* The first loop of bam_trim: the index of the reference-consuming operation
\* that carries pos past end (Len(cigar)+1 when there is none), and pos
\* after it.
RECURSIVE TrimScan(_, _, _, _)
TrimScan(cigar, i, pos, end) ==
    IF i > Len(cigar) THEN [i |-> i, pos |-> pos]
    ELSE IF ~ConsumesRef(cigar[i].op) THEN TrimScan(cigar, i + 1, pos, end)
    ELSE IF pos + cigar[i].len > end
         THEN [i |-> i, pos |-> pos + cigar[i].len]
         ELSE TrimScan(cigar, i + 1, pos + cigar[i].len, end)

\* "Replace trailing elements": acc.nc is new_cigar[0..j-1]; a non-hard-clip
\* operation is added to new_cigar[j-1], which lies outside the array when
\* j = 0 (acc.oob records that out-of-bounds access).
TrimAbsorb(acc, c) ==
    IF c.op = BAM_CHARD_CLIP THEN [acc EXCEPT !.nc = Append(@, c)]
    ELSE IF Len(acc.nc) = 0 THEN [acc EXCEPT !.oob = TRUE]
    ELSE [acc EXCEPT !.nc[Len(acc.nc)] =
              bam_cigar_gen(acc.nc[Len(acc.nc)].len + c.len, BAM_CSOFT_CLIP)]

RECURSIVE TrimTail(_, _, _)
TrimTail(cigar, i, acc) ==
    IF i > Len(cigar) THEN acc
    ELSE TrimTail(cigar, i + 1, TrimAbsorb(acc, cigar[i]))

\* The three-way branch after the scan, for the triggering operation
\* cigar[i] with pos the reference coordinate after it:
\*   kept  the replacement of cigar[i] in the retained prefix (<<>> if none)
\*   nc    the first entries of new_cigar
\*   unmap whether the record is marked unmapped
TrimBranch(c, pos, end) ==
    IF pos - c.len < end
    THEN [kept |-> <<bam_cigar_gen(end - (pos - c.len), c.op)>>,
          nc |-> <<bam_cigar_gen(pos - end, BAM_CSOFT_CLIP)>>,
          unmap |-> FALSE]
    ELSE IF pos > end
    THEN [kept |-> <<>>, nc |-> <<>>, unmap |-> TRUE]
    ELSE [kept |-> <<>>,
          nc |-> <<bam_cigar_gen(c.len, BAM_CSOFT_CLIP)>>,
          unmap |-> FALSE]

\* A result of bam_trim or bam_sanitize: the record, the return value,
\* whether realloc moved b->data, whether new_cigar[-1] was accessed, and
\* whether the process died of it.
Result(b, ret, moved, oob, crash) ==
    [b |-> b, ret |-> ret, moved |-> moved, oob |-> oob, crash |-> crash]

Unchanged(b) == Result(b, 0, FALSE, FALSE, FALSE)

\* bam_trim(b, end): the set of possible results.  A realloc (line 342) may
\* fail, succeed in place or return a different block; the access to
\* new_cigar[-1] (line 318) is undefined: the process dies, or the call
\* goes on with new_cigar[0..j-1] as it was.
bam_trim(b, end) ==
    LET n_cigar == Len(b.cigar)
        s == TrimScan(b.cigar, 1, b.pos, end)
    IN  IF s.i = n_cigar + 1 THEN {Unchanged(b)}
        ELSE
        LET br == TrimBranch(b.cigar[s.i], s.pos, end)
            flag1 == IF br.unmap
                     THEN (b.flag \cup {BAM_FUNMAP}) \ {BAM_FPROPER_PAIR}
                     ELSE b.flag
            t == TrimTail(b.cigar, s.i + 1, [nc |-> br.nc, oob |-> FALSE])
            old_i == (s.i - 1) + Len(br.kept)
            j == Len(t.nc)
            nshift == 4 * (old_i + j - n_cigar)
            grow == old_i + j > n_cigar /\ b.l_data + nshift > b.m_data
            \* cigar[0..old_i-1], already written in place
            split == [b EXCEPT !.flag = flag1,
                               !.cigar = SubSeq(b.cigar, 1, s.i - 1) \o br.kept
                                         \o SubSeq(b.cigar, old_i + 1, n_cigar)]
            done == [b EXCEPT !.flag = flag1,
                              !.cigar = SubSeq(b.cigar, 1, s.i - 1) \o br.kept
                                        \o t.nc,
                              !.l_data = b.l_data + nshift,
                              !.m_data = IF grow THEN b.l_data + nshift
                                         ELSE b.m_data]
        IN  (IF t.oob THEN {Result(split, 0, FALSE, TRUE, TRUE)} ELSE {})
            \cup (IF grow
                  THEN {Result(split, -1, FALSE, t.oob, FALSE),
                        Result(done, 0, FALSE, t.oob, FALSE),
                        Result(done, 0, TRUE, t.oob, FALSE)}
                  ELSE {Result(done, 0, FALSE, t.oob, FALSE)})

(************************ auxiliary tags (htslib) **************************)
\* The auxiliary region is a sequence of bytes; an entry is a two-byte key,
\* a type byte and a payload whose size the type gives.  Offsets count from
\* the start of the region; NULL is the null pointer.
NULL == -1

\* The payload size of a fixed-size type code (A c C: 1, s S: 2, i I f: 4,
\* d: 8); 0 for any other code.
aux_type2size(t) ==
    CASE t \in {65, 99, 67} -> 1
      [] t \in {115, 83} -> 2
      [] t \in {105, 73, 102} -> 4
      [] t = 100 -> 8
      [] OTHER -> 0

\* The offset after the NUL that ends the string starting at s; the end of
\* the region if there is none.
RECURSIVE StrEnd(_, _)
StrEnd(aux, s) ==
    IF s >= Len(aux) THEN Len(aux)
    ELSE IF aux[s + 1] = 0 THEN s + 1
    ELSE StrEnd(aux, s + 1)

\* s points at a type byte; the offset after the entry, NULL if malformed.
\* (Z and H are NUL-terminated strings; B arrays are not modelled.)
skip_aux(aux, s) ==
    IF s >= Len(aux) THEN Len(aux)
    ELSE IF aux[s + 1] \in {90, 72} THEN StrEnd(aux, s + 1)
    ELSE LET size == aux_type2size(aux[s + 1])
         IN  IF size = 0 THEN NULL
             ELSE IF Len(aux) - (s + 1) < size THEN NULL
             ELSE s + 1 + size

bam_aux_first(aux) == IF Len(aux) <= 2 THEN NULL ELSE 2

bam_aux_next(aux, s) ==
    LET next == skip_aux(aux, s)
    IN  IF next = NULL THEN [p |-> NULL, errno |-> "EINVAL"]
        ELSE IF Len(aux) - next <= 2 THEN [p |-> NULL, errno |-> "ENOENT"]
        ELSE [p |-> next + 2, errno |-> "OK"]

XTAG(a, b) == a * 256 + b

\* A filter that forgets SM: C6 tells it from the code's.
DroppedKeysWithoutSM == {XTAG(78, 77), XTAG(77, 68), XTAG(67, 71)}

\* NM, MD, CG, SM
DroppedKeys == {XTAG(78, 77), XTAG(77, 68), XTAG(67, 71), XTAG(83, 77)}

\* memmove(buf+to, buf+from, len)
MemMove(buf, to, from, len) ==
    [k \in 1..Len(buf) |->
        IF k - 1 >= to /\ k - 1 < to + len THEN buf[k - to + from] ELSE buf[k]]

\* The compacting loop of bam_sanitize: from is after the key of the current
\* entry (NULL when done), to is the write cursor.
RECURSIVE AuxCompact(_, _, _)
AuxCompact(buf, from, to) ==
    IF from = NULL THEN [buf |-> buf, to |-> to, ret |-> 0]
    ELSE
    LET nx == bam_aux_next(buf, from)
        f == from - 2
        key == XTAG(buf[f + 1], buf[f + 2])
        len == (IF nx.p # NULL THEN nx.p - 2 ELSE Len(buf)) - f
    IN  IF nx.p = NULL /\ nx.errno # "ENOENT"
        THEN [buf |-> buf, to |-> to, ret |-> -1]
        ELSE IF key \notin DroppedKeys
        THEN AuxCompact(IF f # to THEN MemMove(buf, to, f, len) ELSE buf,
                        nx.p, to + len)
        ELSE AuxCompact(buf, nx.p, to)

(***************************** bam_sanitize ********************************)
\* The header's reference lengths, indexed by tid + 1.
TargetLen == <<MaxEnd, MaxEnd>>

sam_hdr_tid2len(h, tid) == IF tid >= 0 /\ tid < Len(h) THEN h[tid + 1] ELSE 0

clear_cigar(b) ==
    [b EXCEPT !.l_data = @ - 4 * Len(b.cigar), !.cigar = <<>>]

\* Lines 410-415: RNAME * => pos 0.
SanitizePos(b, flags) ==
    IF FIX_POS \in flags /\ b.tid < 0
    THEN [b EXCEPT !.pos = -1,
                   !.flag = IF FIX_UNMAP \in flags THEN @ \cup {BAM_FUNMAP}
                            ELSE @]
    ELSE b

\* A CIGAR step that also trims a record ending exactly at the reference
\* end: C7 tells it from the code's.
SanitizeCigarTrimsAtEnd(h, b, flags) ==
    IF ~(FIX_CIGAR \in flags /\ BAM_FUNMAP \notin b.flag) THEN {Unchanged(b)}
    ELSE IF b.pos < 0 /\ FIX_UNMAP \in flags
    THEN {Unchanged([b EXCEPT !.flag = @ \cup {BAM_FUNMAP}])}
    ELSE LET rlen == sam_hdr_tid2len(h, b.tid)
         IN  IF b.pos >= rlen /\ FIX_UNMAP \in flags
             THEN {Unchanged([b EXCEPT
                      !.flag = @ \cup {BAM_FUNMAP},
                      !.tid = IF FIX_POS \in flags THEN -1 ELSE @,
                      !.pos = IF FIX_POS \in flags THEN -1 ELSE @])}
             ELSE IF bam_endpos(b) >= rlen THEN bam_trim(b, rlen - 1)
             ELSE {Unchanged(b)}

\* Lines 417-432: mapped => unmapped correction, or the trim.
SanitizeCigar(h, b, flags) ==
    IF ~(FIX_CIGAR \in flags /\ BAM_FUNMAP \notin b.flag) THEN {Unchanged(b)}
    ELSE IF b.pos < 0 /\ FIX_UNMAP \in flags
    THEN {Unchanged([b EXCEPT !.flag = @ \cup {BAM_FUNMAP}])}
    ELSE LET rlen == sam_hdr_tid2len(h, b.tid)
         IN  IF b.pos >= rlen /\ FIX_UNMAP \in flags
             THEN {Unchanged([b EXCEPT
                      !.flag = @ \cup {BAM_FUNMAP},
                      !.tid = IF FIX_POS \in flags THEN -1 ELSE @,
                      !.pos = IF FIX_POS \in flags THEN -1 ELSE @])}
             ELSE IF bam_endpos(b) > rlen THEN bam_trim(b, rlen)
             ELSE {Unchanged(b)}

\* Lines 434-470: unmapped => CIGAR, quality and tag corrections.
SanitizeUnmapped(b, flags) ==
    IF BAM_FUNMAP \notin b.flag THEN [b |-> b, ret |-> 0]
    ELSE
    LET b1 == IF FIX_CIGAR \in flags /\ Len(b.cigar) > 0 THEN clear_cigar(b)
              ELSE b
        b2 == IF FIX_MQUAL \in flags THEN [b1 EXCEPT !.qual = 0] ELSE b1
    IN  IF FIX_AUX \notin flags THEN [b |-> b2, ret |-> 0]
        ELSE
        LET from == bam_aux_first(b2.aux)
            to == IF from # NULL THEN from - 2 ELSE Len(b2.aux)
            c == AuxCompact(b2.aux, from, to)
        IN  IF c.ret < 0 THEN [b |-> [b2 EXCEPT !.aux = c.buf], ret |-> -1]
            ELSE [b |-> [b2 EXCEPT
                           !.aux = SubSeq(c.buf, 1, c.to),
                           !.l_data = (b2.l_data - Len(b2.aux)) + c.to],
                  ret |-> 0]

\* bam_sanitize(h, b, flags): the set of possible results.
bam_sanitize(h, b, flags) ==
    {IF s2.ret < 0 \/ s2.crash THEN s2
     ELSE LET s3 == SanitizeUnmapped(s2.b, flags)
          IN  [s2 EXCEPT !.b = s3.b, !.ret = s3.ret]
     : s2 \in SanitizeCigar(h, SanitizePos(b, flags), flags)}

(***************************** mate tags ***********************************)
\* bam_aux_get: the offset of the type byte of the first entry with the key
\* (k1, k2), NULL if there is none or the entry is malformed.
RECURSIVE AuxFind(_, _, _, _)
AuxFind(aux, s, k1, k2) ==
    IF s = NULL THEN NULL
    ELSE IF aux[s - 1] = k1 /\ aux[s] = k2
    THEN LET e == skip_aux(aux, s)
         IN  IF e = NULL THEN NULL
             ELSE IF aux[s + 1] \in {90, 72} /\ aux[e] # 0 THEN NULL
             ELSE s
    ELSE AuxFind(aux, bam_aux_next(aux, s).p, k1, k2)

bam_aux_get(b, k1, k2) == AuxFind(b.aux, bam_aux_first(b.aux), k1, k2)

bam_aux_del(b, s) ==
    LET e == skip_aux(b.aux, s)
    IN  [b EXCEPT !.aux = SubSeq(b.aux, 1, s - 2)
                          \o SubSeq(b.aux, e + 1, Len(b.aux)),
                  !.l_data = @ - (e - (s - 2))]

\* The smallest power of two that is at least x (x > 0).
RECURSIVE RoundUpFrom(_, _)
RoundUpFrom(p, x) == IF p >= x THEN p ELSE RoundUpFrom(2 * p, x)

kroundup32(x) == RoundUpFrom(1, x)

\* bam_aux_append: the data block grows to a power of two when the entry
\* does not fit.
bam_aux_append(b, k1, k2, type, data) ==
    LET new_len == b.l_data + 3 + Len(data)
    IN  [b EXCEPT !.aux = @ \o <<k1, k2, type>> \o data,
                  !.l_data = new_len,
                  !.m_data = IF new_len > @ THEN kroundup32(new_len) ELSE @]

\* kputw: the decimal digits of a number >= 0, as character codes.
RECURSIVE kputw(_)
kputw(n) == IF n < 10 THEN <<48 + n>> ELSE kputw(n \div 10) \o <<48 + (n % 10)>>

bam_cigar_opchr(op) ==
    CASE op = "M" -> 77 [] op = "I" -> 73 [] op = "D" -> 68 [] op = "N" -> 78
      [] op = "S" -> 83 [] op = "H" -> 72 [] op = "P" -> 80 [] op = "=" -> 61
      [] op = "X" -> 88 [] OTHER -> 63

RECURSIVE FormatOps(_)
FormatOps(cigar) ==
    IF cigar = <<>> THEN <<>>
    ELSE kputw(Head(cigar).len) \o <<bam_cigar_opchr(Head(cigar).op)>>
         \o FormatOps(Tail(cigar))

\* An empty CIGAR is "*".
bam_format_cigar(b) == IF Len(b.cigar) = 0 THEN <<42>> ELSE FormatOps(b.cigar)

DelTag(b, k1, k2) ==
    IF bam_aux_get(b, k1, k2) # NULL THEN bam_aux_del(b, bam_aux_get(b, k1, k2))
    ELSE b

\* F(e), with e evaluated once: the statements of the code run in
\* sequence, each on the result of the one before.
Then(F(_), e) == CHOOSE r \in {F(v) : v \in {e}} : TRUE

\* sync_mq_mc(src, dest): the new dest.  MQ:i is src's mapping quality as
\* four little-endian bytes, MC:Z src's CIGAR string and its NUL.  (The
\* results of bam_aux_append are not tested by the code; the appends are
\* taken to succeed.)
sync_mq_mc(src, dest) ==
    LET CopyMQ(d) == IF BAM_FUNMAP \notin src.flag
                     THEN bam_aux_append(DelTag(d, 77, 81), 77, 81, 105,
                                         <<src.qual % 256, 0, 0, 0>>)
                     ELSE d
        CopyMC(d) == IF BAM_FUNMAP \notin src.flag \/ BAM_FUNMAP \notin d.flag
                     THEN bam_aux_append(DelTag(d, 77, 67), 77, 67, 90,
                                         bam_format_cigar(src) \o <<0>>)
                     ELSE d
    IN  Then(CopyMC, Then(CopyMQ, dest))

(************************** mate synchroniser ******************************)
sync_unmapped_pos_inner(src, dest) ==
    IF BAM_FUNMAP \in dest.flag /\ BAM_FUNMAP \notin src.flag
    THEN [dest EXCEPT !.tid = src.tid, !.pos = src.pos]
    ELSE dest

\* A synchronisation that clears the mate-unmapped flag when the source is
\* mapped: C11 tells it from the code's.
sync_mate_inner_clearing(src, dest) ==
    [dest EXCEPT
        !.mtid = src.tid,
        !.mpos = src.pos,
        !.flag = LET f1 == IF BAM_FREVERSE \in src.flag
                           THEN @ \cup {BAM_FMREVERSE}
                           ELSE @ \ {BAM_FMREVERSE}
                 IN  IF BAM_FUNMAP \in src.flag THEN f1 \cup {BAM_FMUNMAP}
                     ELSE f1 \ {BAM_FMUNMAP}]

sync_mate_inner(src, dest) ==
    [dest EXCEPT
        !.mtid = src.tid,
        !.mpos = src.pos,
        !.flag = LET f1 == IF BAM_FREVERSE \in src.flag
                           THEN @ \cup {BAM_FMREVERSE}
                           ELSE @ \ {BAM_FMREVERSE}
                 IN  IF BAM_FUNMAP \in src.flag THEN f1 \cup {BAM_FMUNMAP}
                     ELSE f1]

\* sync_mate(a, b): the calls in the order of the code, each on the records
\* as the calls before it left them.
sync_mate(a, b) ==
    LET S1(st) == [st EXCEPT !.b = sync_unmapped_pos_inner(st.a, @)]
        S2(st) == [st EXCEPT !.a = sync_unmapped_pos_inner(st.b, @)]
        S3(st) == [st EXCEPT !.b = sync_mate_inner(st.a, @)]
        S4(st) == [st EXCEPT !.a = sync_mate_inner(st.b, @)]
        S5(st) == [st EXCEPT !.b = sync_mq_mc(st.a, @)]
        S6(st) == [st EXCEPT !.a = sync_mq_mc(st.b, @)]
    IN  Then(S6, Then(S5, Then(S4, Then(S3, Then(S2,
            Then(S1, [a |-> a, b |-> b]))))))

\* A plausibility test on the leftmost positions instead of the 5' ends: C9
\* tells it from the code's.
plausibly_properly_paired_by_pos(a, b) ==
    IF BAM_FUNMAP \in a.flag \/ BAM_FUNMAP \in b.flag
    THEN [ret |-> FALSE, assert |-> TRUE]
    ELSE IF ~(a.tid >= 0) THEN [ret |-> FALSE, assert |-> FALSE]
    ELSE IF a.tid # b.tid THEN [ret |-> FALSE, assert |-> TRUE]
    ELSE
    LET first == IF a.pos > b.pos THEN b ELSE a
        second == IF a.pos > b.pos THEN a ELSE b
    IN  [ret |-> BAM_FREVERSE \notin first.flag /\ BAM_FREVERSE \in second.flag,
         assert |-> TRUE]

\* plausibly_properly_paired(a, b): ret is the value returned; assert is
\* FALSE when the assertion of line 141 fails (the process aborts).
plausibly_properly_paired(a, b) ==
    IF BAM_FUNMAP \in a.flag \/ BAM_FUNMAP \in b.flag
    THEN [ret |-> FALSE, assert |-> TRUE]
    ELSE IF ~(a.tid >= 0) THEN [ret |-> FALSE, assert |-> FALSE]
    ELSE IF a.tid # b.tid THEN [ret |-> FALSE, assert |-> TRUE]
    ELSE
    LET a_pos == IF BAM_FREVERSE \in a.flag THEN bam_endpos(a) ELSE a.pos
        b_pos == IF BAM_FREVERSE \in b.flag THEN bam_endpos(b) ELSE b.pos
        first == IF a_pos > b_pos THEN b ELSE a
        second == IF a_pos > b_pos THEN a ELSE b
    IN  [ret |-> BAM_FREVERSE \notin first.flag /\ BAM_FREVERSE \in second.flag,
         assert |-> TRUE]


(*************************** the driver loop *******************************)
IsPrimary(r) == r.flag \cap {BAM_FSECONDARY, BAM_FSUPPLEMENTARY} = {}

ClearPairFlags(r) ==
    [r EXCEPT !.flag = @ \ {BAM_FPAIRED, BAM_FMREVERSE, BAM_FPROPER_PAIR}]

\* "If safe set TLEN/ISIZE" (lines 625-627).
SafeForTlen(pre, cur) ==
    /\ pre.tid = cur.tid
    /\ cur.flag \cap {BAM_FUNMAP, BAM_FMUNMAP} = {}
    /\ pre.flag \cap {BAM_FUNMAP, BAM_FMUNMAP} = {}

\* A 5' coordinate that ignores the strand: C4 tells it from the code's.
FivePrimeIgnoringStrand(r, end) == r.pos

\* cur5 and pre5 (lines 629-634): r's 5' coordinate, end being its
\* alignment end taken before the synchronisation.
FivePrime(r, end) == IF BAM_FREVERSE \in r.flag THEN end ELSE r.pos

\* Lines 615-669, for the primaries pre and cur (add_ct and do_mate_scoring
\* are off, as they are by default).  abort: the assertion of
\* plausibly_properly_paired failed.  fmt: sync_mq_mc called
\* bam_format_cigar, which fails when its string cannot grow (sync_mate
\* then returns -1 and the driver gives up, line 622).
PairFix(pre0, cur0, pre_end, o) ==
    LET cur_end == IF BAM_FUNMAP \notin cur0.flag THEN bam_endpos(cur0) ELSE 0
        Sync(st) ==
            Then(LAMBDA s : [st EXCEPT !.pre = s.a, !.cur = s.b],
                 sync_mate([st.pre EXCEPT !.flag = @ \cup {BAM_FPAIRED}],
                           [st.cur EXCEPT !.flag = @ \cup {BAM_FPAIRED}]))
        Tlen(st) ==
            LET safe == SafeForTlen(st.pre, st.cur)
                cur5 == FivePrime(st.cur, cur_end)
                pre5 == FivePrime(st.pre, pre_end)
            IN  [st EXCEPT !.cur.isize = IF safe THEN pre5 - cur5 ELSE 0,
                           !.pre.isize = IF safe THEN cur5 - pre5 ELSE 0]
        Proper(st) ==
            LET pp == IF o.proper_pair_check
                      THEN plausibly_properly_paired(st.pre, st.cur)
                      ELSE [ret |-> TRUE, assert |-> TRUE]
            IN  [st EXCEPT
                   !.pre.flag = IF ~pp.ret THEN @ \ {BAM_FPROPER_PAIR} ELSE @,
                   !.cur.flag = IF ~pp.ret THEN @ \ {BAM_FPROPER_PAIR} ELSE @,
                   !.abort = ~pp.assert]
        OrphanCur(st) ==
            IF o.remove_reads /\ BAM_FUNMAP \in st.pre.flag
            THEN [st EXCEPT !.cur = ClearPairFlags(@)] ELSE st
        OrphanPre(st) ==
            IF o.remove_reads /\ BAM_FUNMAP \in st.cur.flag
            THEN [st EXCEPT !.pre = ClearPairFlags(@)] ELSE st
    IN  Then(OrphanPre, Then(OrphanCur, Then(Proper, Then(Tlen, Then(Sync,
            [pre |-> pre0, cur |-> cur0, abort |-> FALSE,
             fmt |-> BAM_FUNMAP \notin pre0.flag
                     \/ BAM_FUNMAP \notin cur0.flag])))))

\* Lines 603-670: the loop over the template's records, from record n on.
\* st.prev and st.curr are the slots of pre and cur (0: the null pointer).
RECURSIVE FixLoop(_, _, _, _)
FixLoop(st, n, last, o) ==
    IF n > last \/ st.abort THEN st
    ELSE IF ~IsPrimary(st.b[n]) THEN FixLoop(st, n + 1, last, o)
    ELSE IF st.prev = 0
    THEN Then(LAMBDA s : FixLoop(s, n + 1, last, o),
              [st EXCEPT
                 !.prev = n,
                 !.pre_end = IF BAM_FUNMAP \notin st.b[n].flag
                             THEN bam_endpos(st.b[n]) ELSE 0])
    ELSE Then(LAMBDA r : FixLoop([st EXCEPT !.curr = n,
                                            !.b[st.prev] = r.pre,
                                            !.b[n] = r.cur,
                                            !.abort = r.abort,
                                            !.fmt = @ \/ r.fmt],
                                 n + 1, last, o),
              PairFix(st.b[st.prev], st.b[n], st.pre_end, o))

\* Lines 672-678.
Unpaired(pre) ==
    ClearPairFlags([pre EXCEPT !.mtid = -1, !.mpos = -1, !.isize = 0])

\* Lines 598-678 on the template b[1..n].  nullDeref: cur and pre are both
\* null at line 673, and pre is dereferenced.  fmt: a sync_mate could have
\* failed.
FixTemplate(b, n, o) ==
    LET After(st) ==
            LET res == [b |-> st.b, abort |-> FALSE, nullDeref |-> FALSE,
                        fmt |-> st.fmt]
            IN  IF st.abort THEN [res EXCEPT !.abort = TRUE]
                ELSE IF st.curr # 0 THEN res
                ELSE IF st.prev = 0 THEN [res EXCEPT !.nullDeref = TRUE]
                ELSE [res EXCEPT !.b[st.prev] = Unpaired(@)]
    IN  Then(After, FixLoop([b |-> b, prev |-> 0, curr |-> 0, pre_end |-> 0,
                             abort |-> FALSE, fmt |-> FALSE], 1, n, o))

\* A write loop that skips nothing: C3 tells it from the code's.
WriteLoopKeepingAll(b, n, last, o) == SubSeq(b, n, last)

\* We may remove unmapped and secondary alignments (line 690).
Removed(r, o) ==
    o.remove_reads /\ r.flag \cap {BAM_FSECONDARY, BAM_FUNMAP} # {}

\* Lines 687-695: the records handed to sam_write1, in order.
RECURSIVE WriteLoop(_, _, _, _)
WriteLoop(b, n, last, o) ==
    IF n > last THEN <<>>
    ELSE (IF Removed(b[n], o) THEN <<>> ELSE <<b[n]>>)
         \o WriteLoop(b, n + 1, last, o)


(************************** records and inputs *****************************)
\* Bytes of a record's data outside the CIGAR and the auxiliary region
\* (qname, sequence, qualities).
QnameSeqBytes == 8

NewRecord(name, flag, tid, pos, cigar, aux, slack) ==
    [name |-> name, id |-> 0, flag |-> flag, tid |-> tid, pos |-> pos,
     qual |-> 30, mtid |-> -1, mpos |-> -1, isize |-> 0,
     cigar |-> cigar, aux |-> aux,
     l_data |-> QnameSeqBytes + 4 * Len(cigar) + Len(aux),
     m_data |-> QnameSeqBytes + 4 * Len(cigar) + Len(aux) + slack]

\* One operation of each kind the code tells apart: consuming reference and
\* query (M), reference only (D), query only (S), neither (P), and the
\* hard clip.
CigarOps == [op : {"M", "D", "S", "P", "H"}, len : {1, MaxOpLen}]

Cigars == UNION {[1..n -> CigarOps] : n \in 0..MaxCigar}

Idle ==
    /\ pc = "unit"
    /\ bs = [b |-> <<>>, n |-> 0, ba |-> 0, b_next |-> -1, eof |-> 0]
    /\ opts = [remove_reads |-> FALSE, proper_pair_check |-> TRUE,
               sanitize_flags |-> FIX_ALL]
    /\ nt = [name |-> "", dangling |-> FALSE]
    /\ decoded = <<>>
    /\ groups = <<>>
    /\ fixed = <<>>
    /\ written = <<>>

(************************* bam_trim on its own *****************************)
\* bam_trim is called (line 428) on a mapped record whose end lies beyond
\* the cutoff.
TrimRecords ==
    {NewRecord("R1", {BAM_FPROPER_PAIR}, 0, p, c, <<>>, 0) :
        p \in 0..1, c \in Cigars}
    \cup {NewRecord("R1", {BAM_FPROPER_PAIR}, 0, 0, c, <<>>, 4) :
        c \in {<<bam_cigar_gen(100, "M")>>,
               <<bam_cigar_gen(70, "M"), bam_cigar_gen(30, "M")>>}}

TrimEnds == (0..MaxEnd) \cup {70}

TrimInit ==
    /\ Idle
    /\ call \in {[fn |-> "bam_trim", phase |-> "call", b |-> r, end |-> e,
                  res |-> Unchanged(r)] :
                    r \in TrimRecords, e \in TrimEnds}
    /\ bam_endpos(call.b) > call.end

TrimCall ==
    /\ call.fn = "bam_trim"
    /\ call.phase = "call"
    /\ \E r \in bam_trim(call.b, call.end) :
          call' = [call EXCEPT !.phase = IF r.crash THEN "crash" ELSE "ret",
                               !.res = r]
    /\ UNCHANGED <<pc, bs, nt, opts, decoded, groups, fixed, written>>

SpecTrim == TrimInit /\ [][TrimCall]_vars


(********************* what a trim is expected to do ***********************)
\* The reference coordinate after the first i operations.
RefAfter(cigar, pos, i) == pos + bam_cigar2rlen(SubSeq(cigar, 1, i))

\* Operation i is the triggering one: the first reference-consuming
\* operation that carries the alignment past end.
IsTrigger(cigar, pos, end, i) ==
    /\ i \in 1..Len(cigar)
    /\ ConsumesRef(cigar[i].op)
    /\ RefAfter(cigar, pos, i) > end
    /\ \A k \in 1..(i - 1) :
          ConsumesRef(cigar[k].op) => RefAfter(cigar, pos, k) <= end

RECURSIVE SumLen(_)
SumLen(cigar) ==
    IF cigar = <<>> THEN 0 ELSE Head(cigar).len + SumLen(Tail(cigar))

IsHard(c) == c.op = BAM_CHARD_CLIP

NotHard(c) == c.op # BAM_CHARD_CLIP

LaterOps(cigar, i) == SubSeq(cigar, i + 1, Len(cigar))

TrimReturned ==
    call.fn = "bam_trim" /\ call.phase = "ret" /\ call.res.ret = 0

\* C5: a cutoff strictly inside the triggering operation leaves the
\* operations before it unchanged, shortens it to end at the cutoff, follows
\* it by one soft-clip of the overflow plus every later non-hard-clip
\* operation and then the later hard-clips; the record stays mapped and the
\* operation count grows by at most one.
C5_TrimSplitsInsideOperation ==
    TrimReturned =>
      \A i \in 1..Len(call.b.cigar) :
        LET c == call.b.cigar
            opEnd == RefAfter(c, call.b.pos, i)
            opStart == opEnd - c[i].len
        IN  (IsTrigger(c, call.b.pos, call.end, i)
             /\ opStart < call.end /\ call.end < opEnd) =>
              /\ call.res.b.cigar =
                    SubSeq(c, 1, i - 1)
                    \o <<bam_cigar_gen(call.end - opStart, c[i].op)>>
                    \o <<bam_cigar_gen((opEnd - call.end)
                           + SumLen(SelectSeq(LaterOps(c, i), NotHard)),
                           BAM_CSOFT_CLIP)>>
                    \o SelectSeq(LaterOps(c, i), IsHard)
              /\ BAM_FUNMAP \notin call.res.b.flag
              /\ Len(call.res.b.cigar) <= Len(c) + 1

\* C10: a triggering operation that starts exactly at the cutoff becomes a
\* soft-clip and the record stays mapped; the record is marked unmapped only
\* when the triggering operation starts strictly beyond the cutoff.
C10_BoundaryBecomesSoftClip ==
    TrimReturned =>
      \A i \in 1..Len(call.b.cigar) :
        LET c == call.b.cigar
            opStart == RefAfter(c, call.b.pos, i) - c[i].len
        IN  IsTrigger(c, call.b.pos, call.end, i) =>
              /\ opStart = call.end =>
                    /\ BAM_FUNMAP \notin call.res.b.flag
                    /\ Len(call.res.b.cigar) >= i
                    /\ SubSeq(call.res.b.cigar, 1, i - 1) = SubSeq(c, 1, i - 1)
                    /\ call.res.b.cigar[i].op = BAM_CSOFT_CLIP
              /\ BAM_FUNMAP \in call.res.b.flag => opStart > call.end


(*********************** bam_sanitize on its own ***************************)
\* Auxiliary entries as bytes: NM:c MD:s CG:c SM:s XA:c MN:s, and an entry
\* with an unknown type code.
AuxEntries ==
    {<<78, 77, 99, 1>>, <<77, 68, 115, 2, 3>>, <<67, 71, 99, 4>>,
     <<83, 77, 115, 5, 6>>, <<88, 65, 99, 7>>, <<77, 78, 115, 8, 9>>,
     <<88, 66, 0, 1>>}

AuxLists == UNION {[1..n -> AuxEntries] : n \in 0..MaxAux}

RECURSIVE Flatten(_)
Flatten(entries) ==
    IF entries = <<>> THEN <<>> ELSE Head(entries) \o Flatten(Tail(entries))

SanCigars ==
    {<<>>,
     <<bam_cigar_gen(2, "M")>>,
     <<bam_cigar_gen(1, "S"), bam_cigar_gen(MaxEnd, "M")>>,
     <<bam_cigar_gen(MaxEnd + 1, "M")>>,
     <<bam_cigar_gen(MaxEnd, "M"), bam_cigar_gen(1, "D"),
       bam_cigar_gen(1, "M")>>}

SanMasks == {FIX_ALL, FIX_ON, {FIX_AUX, FIX_MQUAL}, {FIX_CIGAR}}

SanInit ==
    /\ Idle
    /\ call \in {[fn |-> "bam_sanitize", phase |-> "call",
                  b |-> NewRecord("R1", f, t, p, c, Flatten(a), 0),
                  entries |-> a, flags |-> m,
                  res |-> Unchanged(NewRecord("R1", f, t, p, c, Flatten(a), 0))] :
                    f \in {{}, {BAM_FUNMAP}}, t \in {-1, 0},
                    p \in {-1, 0, 1, MaxEnd}, c \in SanCigars,
                    a \in AuxLists, m \in SanMasks}

SanCall ==
    /\ call.fn = "bam_sanitize"
    /\ call.phase = "call"
    /\ \E r \in bam_sanitize(TargetLen, call.b, call.flags) :
          call' = [call EXCEPT !.phase = IF r.crash THEN "crash" ELSE "ret",
                               !.res = r]
    /\ UNCHANGED <<pc, bs, nt, opts, decoded, groups, fixed, written>>

SpecSanitize == SanInit /\ [][SanCall]_vars

SanReturned ==
    call.fn = "bam_sanitize" /\ call.phase = "ret" /\ call.res.ret = 0

KeptEntry(e) ==
    <<e[1], e[2]>> \notin {<<78, 77>>, <<77, 68>>, <<67, 71>>, <<83, 77>>}

DroppedEntry(e) == ~KeptEntry(e)

\* C6: with AuxTags enabled on a record that is unmapped after the earlier
\* steps, the auxiliary stream is the original one without the NM, MD, CG
\* and SM entries, the others kept byte for byte and in order, and the data
\* length drops by the removed entries' bytes (and the removed CIGAR bytes).
C6_AuxFilterRemovesExactlyFourKeys ==
    (SanReturned /\ FIX_AUX \in call.flags /\ BAM_FUNMAP \in call.res.b.flag) =>
        /\ call.res.b.aux = Flatten(SelectSeq(call.entries, KeptEntry))
        /\ call.res.b.l_data =
              call.b.l_data
              - Len(Flatten(SelectSeq(call.entries, DroppedEntry)))
              - 4 * (Len(call.b.cigar) - Len(call.res.b.cigar))

\* A dropped entry before a kept one (so bytes are moved down), on a record
\* whose CIGAR was deleted too.
C6_Witness ==
    /\ SanReturned /\ FIX_AUX \in call.flags /\ BAM_FUNMAP \in call.res.b.flag
    /\ Len(call.entries) = 2
    /\ DroppedEntry(call.entries[1]) /\ KeptEntry(call.entries[2])
    /\ call.b.cigar # <<>> /\ call.res.b.cigar = <<>>
    /\ call.res.b.aux = call.entries[2]

ValidInBounds(h, b) ==
    /\ b.tid >= 0
    /\ BAM_FUNMAP \notin b.flag
    /\ 0 <= b.pos /\ b.pos < sam_hdr_tid2len(h, b.tid)
    /\ b.pos + (IF bam_cigar2rlen(b.cigar) = 0 THEN 1
                ELSE bam_cigar2rlen(b.cigar)) <= sam_hdr_tid2len(h, b.tid)

\* C7: with all five categories enabled, a valid in-bounds mapped record is
\* left completely unchanged and the call succeeds.
C7_SanitizeValidIsNoOp ==
    (call.fn = "bam_sanitize" /\ call.phase = "ret" /\ call.flags = FIX_ALL
     /\ ValidInBounds(TargetLen, call.b)) =>
        call.res.ret = 0 /\ call.res.b = call.b

\* A mapped record ending exactly at the reference end, carrying a CIGAR and
\* an NM tag.
C7_Witness ==
    /\ call.fn = "bam_sanitize" /\ call.phase = "ret" /\ call.flags = FIX_ALL
    /\ ValidInBounds(TargetLen, call.b)
    /\ call.b.cigar # <<>>
    /\ bam_endpos(call.b) = MaxEnd
    /\ Len(call.entries) > 0 /\ DroppedEntry(call.entries[1])
    /\ call.res.b = call.b


(********************* the pair fixup on its own ***************************)
PairFlags == {f \cup {BAM_FPROPER_PAIR} :
                 f \in SUBSET {BAM_FUNMAP, BAM_FREVERSE, BAM_FMUNMAP}}

PairRecords(positions) ==
    {NewRecord("R1", f, t, p, <<bam_cigar_gen(l, "M")>>, <<>>, 0) :
        f \in PairFlags, t \in {-1, 0, 1}, p \in positions, l \in {1, MaxEnd}}

PairOpts ==
    [remove_reads : BOOLEAN, proper_pair_check : BOOLEAN,
     sanitize_flags : {FIX_ALL}]

\* The records given to sync_mate: any mix of the unmapped, reverse,
\* mate-unmapped and mate-reverse flags, with or without a reference.
SyncRecords ==
    {[NewRecord("R1", f, t, p, <<bam_cigar_gen(1, "M")>>, <<>>, 0)
        EXCEPT !.mtid = 1, !.mpos = 1] :
        f \in SUBSET {BAM_FUNMAP, BAM_FREVERSE, BAM_FMUNMAP, BAM_FMREVERSE},
        t \in {-1, 0, 1}, p \in {0, 2}}

\* The driver's fixups on a template of two primaries, a call of
\* plausibly_properly_paired, or a call of sync_mate.
PairInit ==
    /\ Idle
    /\ \/ call \in {[fn |-> "fixup", phase |-> "call", a |-> x, b |-> y,
                     o |-> o,
                     res |-> [b |-> <<x, y>>, abort |-> FALSE,
                              nullDeref |-> FALSE, fmt |-> FALSE]] :
                       x \in PairRecords({0, 2}), y \in PairRecords({0, 2}),
                       o \in PairOpts}
       \/ call \in {[fn |-> "plausibly_properly_paired", phase |-> "call",
                     a |-> x, b |-> y,
                     res |-> [ret |-> FALSE, assert |-> TRUE]] :
                       x \in PairRecords({0, 2, 100, 200}),
                       y \in PairRecords({0, 2, 100, 200})}
       \/ call \in {[fn |-> "sync_mate", phase |-> "call", a |-> x, b |-> y,
                     res |-> [a |-> x, b |-> y]] :
                       x \in SyncRecords, y \in SyncRecords}

FixupCall ==
    /\ call.fn = "fixup"
    /\ call.phase = "call"
    /\ \E r \in {FixTemplate(<<call.a, call.b>>, 2, call.o)} :
           \/ call' = [call EXCEPT !.phase = IF r.abort THEN "abort" ELSE "ret",
                                   !.res = r]
           \/ r.fmt /\ call' = [call EXCEPT !.phase = "fail"]
    /\ UNCHANGED <<pc, bs, nt, opts, decoded, groups, fixed, written>>

PlausibleCall ==
    /\ call.fn = "plausibly_properly_paired"
    /\ call.phase = "call"
    /\ LET r == plausibly_properly_paired(call.a, call.b)
       IN  call' = [call EXCEPT !.phase = IF r.assert THEN "ret" ELSE "abort",
                                !.res = r]
    /\ UNCHANGED <<pc, bs, nt, opts, decoded, groups, fixed, written>>

\* sync_mate(a, b) returns 0, or -1 when bam_format_cigar failed (lines
\* 204 and 220-221).
SyncCall ==
    /\ call.fn = "sync_mate"
    /\ call.phase = "call"
    /\ \/ call' = [call EXCEPT !.phase = "ret",
                                !.res = sync_mate(call.a, call.b)]
       \/ /\ BAM_FUNMAP \notin call.a.flag \/ BAM_FUNMAP \notin call.b.flag
          /\ call' = [call EXCEPT !.phase = "fail"]
    /\ UNCHANGED <<pc, bs, nt, opts, decoded, groups, fixed, written>>

SpecPair == PairInit /\ [][FixupCall \/ PlausibleCall \/ SyncCall]_vars

\* The alignment end and the 5' coordinate of a mapped record.
AlignEnd(r) ==
    r.pos + (IF bam_cigar2rlen(r.cigar) = 0 THEN 1 ELSE bam_cigar2rlen(r.cigar))

Coord5(r) == IF BAM_FREVERSE \in r.flag THEN AlignEnd(r) ELSE r.pos

Synchronized == call.fn = "fixup" /\ call.phase \in {"ret", "abort"}

InsertSizesAre(A, B, computed) ==
    IF computed
    THEN A.isize = Coord5(B) - Coord5(A) /\ B.isize = -A.isize
    ELSE A.isize = 0 /\ B.isize = 0

\* C4 as stated: after the synchronisation of the two primaries A and B,
\* the insert sizes are the differences of the 5' coordinates if both are
\* mapped and on the same reference, and 0 otherwise.
C4_InsertSizeOriginal ==
    Synchronized =>
        LET A == call.res.b[1]
            B == call.res.b[2]
        IN  InsertSizesAre(A, B,
                /\ BAM_FUNMAP \notin A.flag /\ BAM_FUNMAP \notin B.flag
                /\ A.tid = B.tid)

\* C4 as amended: the insert sizes are computed if both are mapped, on the
\* same reference, and neither carries the mate-unmapped flag after the
\* synchronisation (which sets that flag but never clears it, so a record
\* that came in with it keeps it); they are 0 otherwise.
C4_InsertSize ==
    Synchronized =>
        LET A == call.res.b[1]
            B == call.res.b[2]
        IN  InsertSizesAre(A, B,
                /\ BAM_FUNMAP \notin A.flag /\ BAM_FUNMAP \notin B.flag
                /\ BAM_FMUNMAP \notin A.flag /\ BAM_FMUNMAP \notin B.flag
                /\ A.tid = B.tid)

\* Two mapped primaries on one reference, the second on the reverse strand
\* and longer than one base: the insert sizes are set and not 0.
C4_Witness ==
    /\ Synchronized
    /\ call.a.flag = {BAM_FPROPER_PAIR}
    /\ call.b.flag = {BAM_FPROPER_PAIR, BAM_FREVERSE}
    /\ call.a.tid = 0 /\ call.b.tid = 0
    /\ call.a.pos = 0 /\ call.b.pos = 2 /\ Len(call.b.cigar) = 1
    /\ call.b.cigar[1].len = MaxEnd
    /\ call.res.b[1].isize = 2 + MaxEnd
    /\ call.res.b[2].isize = -(2 + MaxEnd)

Forward(r) == BAM_FREVERSE \notin r.flag

\* C9: plausibly_properly_paired returns false if either record is unmapped
\* or they are on different references; otherwise it returns true exactly
\* when the record with the smaller 5' coordinate is forward and the other
\* is reverse (with equal coordinates the first argument counts as the
\* smaller).  This is about the calls that return: the assertion of line
\* 141 is the subject of C15.
C9_PlausiblyProperlyPaired ==
    (call.fn = "plausibly_properly_paired" /\ call.phase = "ret") =>
        LET a == call.a
            b == call.b
        IN  call.res.ret =
              IF BAM_FUNMAP \in a.flag \/ BAM_FUNMAP \in b.flag \/ a.tid # b.tid
              THEN FALSE
              ELSE IF Coord5(a) <= Coord5(b)
                   THEN Forward(a) /\ ~Forward(b)
                   ELSE Forward(b) /\ ~Forward(a)

\* The example of the claim: forward at 100, reverse at 200, same reference,
\* found plausible.
C9_Witness ==
    /\ call.fn = "plausibly_properly_paired" /\ call.phase = "ret"
    /\ call.a.flag = {BAM_FPROPER_PAIR} /\ call.a.pos = 100
    /\ call.b.flag = {BAM_FPROPER_PAIR, BAM_FREVERSE} /\ call.b.pos = 200
    /\ call.a.tid = 0 /\ call.b.tid = 0
    /\ call.res.ret = TRUE


(************************ the template batch reader ************************)
\* memset(&b[i], 0, sizeof(bam1_t))
ZeroRecord ==
    [name |-> "", id |-> 0, flag |-> {}, tid |-> 0, pos |-> 0, qual |-> 0,
     mtid |-> 0, mpos |-> 0, isize |-> 0, cigar |-> <<>>, aux |-> <<>>,
     l_data |-> 0, m_data |-> 0]

RECURSIVE ZeroRecords(_)
ZeroRecords(k) == IF k <= 0 THEN <<>> ELSE <<ZeroRecord>> \o ZeroRecords(k - 1)

\* grow_b_array(&bs->b, &bs->ba, n) when realloc succeeds.
grow_b_array(s, n) ==
    IF n < s.ba THEN s
    ELSE [s EXCEPT !.b = @ \o ZeroRecords(n - s.ba), !.ba = n]

\* Whether grow_b_array(.., n) calls realloc.
GrowAllocates(s, n) == ~(n < s.ba)

\* The records of the input stream: two names, and for each
\*   a forward mapped record with an NM tag,
\*   a reverse mapped record with stale mate fields and flags,
\*   an unmapped record,
\*   a secondary and a supplementary record,
\*   a mapped record that overhangs the reference end by one base, in a
\*     data block with no room to spare,
\*   a record with no reference that is not flagged unmapped.
Names == {"R1", "R2"}

InRecords ==
    UNION {
      {NewRecord(nm, {}, 0, 0, <<bam_cigar_gen(2, "M")>>, <<78, 77, 99, 1>>, 4),
       [NewRecord(nm, {BAM_FREVERSE, BAM_FPAIRED, BAM_FPROPER_PAIR,
                       BAM_FMUNMAP, BAM_FMREVERSE},
                  0, 1, <<bam_cigar_gen(2, "M")>>, <<>>, 4)
          EXCEPT !.mtid = 1, !.mpos = 2, !.isize = 5],
       NewRecord(nm, {BAM_FUNMAP}, -1, -1, <<>>, <<>>, 4),
       NewRecord(nm, {BAM_FSECONDARY}, 0, 0, <<bam_cigar_gen(1, "M")>>, <<>>, 4),
       NewRecord(nm, {BAM_FSUPPLEMENTARY, BAM_FPAIRED}, 0, 0,
                 <<bam_cigar_gen(1, "M")>>, <<>>, 4),
       NewRecord(nm, {BAM_FPROPER_PAIR}, 0, 1,
                 <<bam_cigar_gen(MaxEnd, "M")>>, <<>>, 0),
       NewRecord(nm, {}, -1, 0, <<bam_cigar_gen(2, "M")>>, <<>>, 4)}
      : nm \in Names}

\* What sam_read1 can return: a record (while the stream has one), end of
\* stream (-1) or an error (-2).
Reads ==
    (IF Len(decoded) < MaxRecords
     THEN {[result |-> 0, rec |-> [r EXCEPT !.id = Len(decoded) + 1]] :
              r \in InRecords}
     ELSE {})
    \cup {[result |-> -1, rec |-> ZeroRecord], [result |-> -2, rec |-> ZeroRecord]}

GroupIds(b, n) == [k \in 1..n |-> b[k].id]

\* strcmp(name, qname) != 0 (line 553): the possible answers.  A dangling
\* name is read from freed memory.
StrcmpDiffers(name, dangling, qname) ==
    IF dangling THEN BOOLEAN ELSE {name # qname}

Init ==
    /\ pc = "next_template"
    /\ bs = [b |-> <<>>, n |-> 0, ba |-> 0, b_next |-> -1, eof |-> 0]
    /\ nt = [name |-> "", dangling |-> FALSE]
    /\ opts \in [remove_reads : BOOLEAN, proper_pair_check : {TRUE},
                 sanitize_flags : {FIX_ALL}]
    /\ decoded = <<>>
    /\ groups = <<>>
    /\ fixed = <<>>
    /\ written = <<>>
    /\ call = [fn |-> "none"]

\* next_template up to the loop (lines 515-536), and what the driver does
\* when it returns early: -1 ends the run with success, less is read_fail.
NT_Enter ==
    /\ pc = "next_template"
    /\ UNCHANGED <<opts, groups, fixed, written, call>>
    /\ IF bs.eof = 1
       THEN pc' = "done" /\ UNCHANGED <<bs, nt, decoded>>
       ELSE IF bs.b_next < 0
       THEN \/ \* grow_b_array fails
               pc' = "failed" /\ UNCHANGED <<bs, nt, decoded>>
            \/ \E rd \in Reads :
                 IF rd.result < 0
                 THEN /\ pc' = IF rd.result = -1 THEN "done" ELSE "failed"
                      /\ bs' = grow_b_array(bs, 1)
                      /\ UNCHANGED <<nt, decoded>>
                 ELSE \E s \in bam_sanitize(TargetLen, rd.rec,
                                            opts.sanitize_flags) :
                        /\ decoded' = Append(decoded, rd.rec)
                        /\ bs' = [grow_b_array(bs, 1) EXCEPT
                                     !.b[1] = s.b,
                                     !.n = IF s.ret < 0 \/ s.crash THEN @ ELSE 1]
                        /\ nt' = [name |-> s.b.name, dangling |-> FALSE]
                        /\ pc' = IF s.crash THEN "crashed"
                                 ELSE IF s.ret < 0 THEN "failed"
                                 ELSE "nt_loop"
       ELSE /\ bs' = [bs EXCEPT !.b[1] = bs.b[bs.b_next + 1],
                                !.b[bs.b_next + 1] = bs.b[1],
                                !.n = 1]
            /\ nt' = [name |-> bs.b[bs.b_next + 1].name, dangling |-> FALSE]
            /\ pc' = "nt_loop"
            /\ UNCHANGED decoded

\* One turn of the loop of next_template (lines 537-558) and, when it
\* breaks, the return of bs->n to the driver.  name points into b[0]'s data
\* block: once a realloc in bam_sanitize(b[0]) has moved that block, name
\* dangles and strcmp may give either answer.
NT_Loop ==
    /\ pc = "nt_loop"
    /\ UNCHANGED <<opts, fixed, written, call>>
    /\ \/ \* grow_b_array fails
          /\ GrowAllocates(bs, bs.n + 1)
          /\ pc' = "failed"
          /\ UNCHANGED <<bs, nt, decoded, groups>>
       \/ \E rd \in Reads :
            LET s1 == grow_b_array(bs, bs.n + 1)
                s2 == IF rd.result >= 0 THEN [s1 EXCEPT !.b[bs.n + 1] = rd.rec]
                      ELSE s1
            IN  IF rd.result < -1
                THEN pc' = "failed" /\ bs' = s1 /\ UNCHANGED <<nt, decoded, groups>>
                ELSE
                \E san \in bam_sanitize(TargetLen, s2.b[1], opts.sanitize_flags) :
                  LET s3 == [s2 EXCEPT !.b[1] = san.b]
                      dangling == nt.dangling \/ san.moved
                  IN  /\ decoded' = IF rd.result >= 0 THEN Append(decoded, rd.rec)
                                    ELSE decoded
                      /\ nt' = [nt EXCEPT !.dangling = dangling]
                      /\ IF san.crash
                         THEN pc' = "crashed" /\ bs' = s3 /\ UNCHANGED groups
                         ELSE IF san.ret < 0
                         THEN pc' = "failed" /\ bs' = s3 /\ UNCHANGED groups
                         ELSE IF rd.result < 0
                         THEN /\ bs' = [s3 EXCEPT !.eof = 1, !.b_next = -1]
                              /\ groups' = Append(groups, GroupIds(s3.b, s3.n))
                              /\ pc' = "fixup"
                         ELSE \E differs \in StrcmpDiffers(nt.name, dangling,
                                                           rd.rec.name) :
                                IF differs
                                THEN /\ bs' = [s3 EXCEPT !.b_next = bs.n]
                                     /\ groups' = Append(groups,
                                                         GroupIds(s3.b, s3.n))
                                     /\ pc' = "fixup"
                                ELSE /\ bs' = [s3 EXCEPT !.b_next = bs.n,
                                                         !.n = bs.n + 1]
                                     /\ UNCHANGED groups
                                     /\ pc' = "nt_loop"

\* Lines 598-678: the fixups of the template b[0..n-1].  A failed assertion
\* aborts the process; dereferencing the null pre is undefined, the process
\* dies or the stores are lost.
Fixup ==
    /\ pc = "fixup"
    /\ UNCHANGED <<nt, opts, decoded, groups, written, call>>
    /\ \E r \in {FixTemplate(bs.b, bs.n, opts)} :
           \/ \* sync_mate fails
              r.fmt /\ pc' = "failed" /\ UNCHANGED <<bs, fixed>>
           \/ IF r.abort
              THEN pc' = "aborted" /\ bs' = [bs EXCEPT !.b = r.b]
                   /\ UNCHANGED fixed
              ELSE \E crash \in BOOLEAN :
                     IF r.nullDeref /\ crash
                     THEN pc' = "crashed" /\ UNCHANGED <<bs, fixed>>
                     ELSE /\ pc' = "write"
                          /\ bs' = [bs EXCEPT !.b = r.b]
                          /\ fixed' = fixed \o SubSeq(r.b, 1, bs.n)

\* Lines 685-695: the template is written; a failing sam_write1 ends the
\* run (write_fail) after the records written before it.
Write ==
    /\ pc = "write"
    /\ UNCHANGED <<bs, nt, opts, decoded, groups, fixed, call>>
    /\ LET out == WriteLoop(bs.b, 1, bs.n, opts)
       IN  \/ /\ written' = written \o out
              /\ pc' = "next_template"
           \/ \E k \in 0..(Len(out) - 1) :
                 /\ written' = written \o SubSeq(out, 1, k)
                 /\ pc' = "failed"

Next == NT_Enter \/ NT_Loop \/ Fixup \/ Write

Spec == Init /\ [][Next]_vars

(************************ what the run is expected to do *******************)
\* The reference and position a record has after the synchronisation: an
\* unmapped record with a mapped mate takes the mate's.
FinalPlace(r, mate) ==
    IF BAM_FUNMAP \in r.flag /\ BAM_FUNMAP \notin mate.flag
    THEN [tid |-> mate.tid, pos |-> mate.pos]
    ELSE [tid |-> r.tid, pos |-> r.pos]

\* What sync_mate leaves in dest (dest0 before the call) for the source
\* src0.
MateFieldsFollow(src0, dest0, dest) ==
    /\ dest.tid = FinalPlace(dest0, src0).tid
    /\ dest.pos = FinalPlace(dest0, src0).pos
    /\ dest.mtid = FinalPlace(src0, dest0).tid
    /\ dest.mpos = FinalPlace(src0, dest0).pos
    /\ (BAM_FMREVERSE \in dest.flag) = (BAM_FREVERSE \in src0.flag)
    /\ (BAM_FMUNMAP \in dest.flag) =
          (BAM_FMUNMAP \in dest0.flag \/ BAM_FUNMAP \in src0.flag)

\* C11: after sync_mate(A, B), in each direction, the destination's mate
\* reference and mate position are the source's final reference and
\* position, its mate-reverse flag is the source's reverse flag, and its
\* mate-unmapped flag is its value before the call or the source being
\* unmapped: the flag is set, never cleared.
C11_SyncMateFields ==
    (call.fn = "sync_mate" /\ call.phase = "ret") =>
        /\ MateFieldsFollow(call.a, call.b, call.res.b)
        /\ MateFieldsFollow(call.b, call.a, call.res.a)

\* An unmapped A takes the place of its mapped, reverse mate B; B came in
\* flagged mate-unmapped and mate-reverse, stays mate-unmapped because A is
\* unmapped, and loses mate-reverse; A, which came in flagged mate-unmapped,
\* keeps that flag although B is mapped.
C11_Witness ==
    /\ call.fn = "sync_mate" /\ call.phase = "ret"
    /\ call.a.flag = {BAM_FUNMAP, BAM_FMUNMAP} /\ call.a.tid = -1
    /\ call.b.flag = {BAM_FREVERSE, BAM_FMUNMAP, BAM_FMREVERSE}
    /\ call.b.tid = 1 /\ call.b.pos = 2
    /\ call.res.a.tid = 1 /\ call.res.a.pos = 2
    /\ call.res.b.mtid = 1 /\ call.res.b.mpos = 2
    /\ BAM_FMUNMAP \in call.res.a.flag
    /\ BAM_FMREVERSE \in call.res.a.flag
    /\ BAM_FMREVERSE \notin call.res.b.flag

RECURSIVE Concat(_)
Concat(ss) == IF ss = <<>> THEN <<>> ELSE Head(ss) \o Concat(Tail(ss))

Ids(recs) == [k \in 1..Len(recs) |-> recs[k].id]

UpTo(n) == [k \in 1..n |-> k]

NameOf(id) == decoded[id].name

\* Records i and j of the stream lie in one run of consecutive same-name
\* records.
SameRun(i, j) ==
    \A k \in (IF i < j THEN i ELSE j)..(IF i < j THEN j ELSE i) :
        NameOf(k) = NameOf(i)

\* C1: the groups returned by next_template are, in stream order, the
\* maximal runs of consecutive same-name records: together they are the
\* decoded records, each once and in order, all records of a group share a
\* name, and a group does not continue the name of the group before it; at
\* the end of the stream no decoded record is left out.
C1_GroupsAreMaximalRuns ==
    /\ \E n \in 0..Len(decoded) : Concat(groups) = UpTo(n)
    /\ \A g \in 1..Len(groups) :
          /\ groups[g] # <<>>
          /\ \A k \in 1..Len(groups[g]) :
                NameOf(groups[g][k]) = NameOf(groups[g][1])
          /\ g > 1 => NameOf(groups[g][1]) # NameOf(groups[g - 1][1])
    /\ pc = "done" => Concat(groups) = UpTo(Len(decoded))

\* C2: when next_template returns a group, every record of it is what
\* bam_sanitize makes of the record as decoded.
C2_ReturnedRecordsAreSanitized ==
    pc = "fixup" =>
        \A k \in 1..bs.n :
            \E s \in bam_sanitize(TargetLen, decoded[bs.b[k].id],
                                  opts.sanitize_flags) :
                s.ret = 0 /\ ~s.crash /\ bs.b[k] = s.b

LeftOut(r) ==
    opts.remove_reads /\ (BAM_FSECONDARY \in r.flag \/ BAM_FUNMAP \in r.flag)

Retained(r) == ~LeftOut(r)

\* C3: over a whole successful run the records passed to sam_write1 are the
\* decoded records after their fixups, in the input order: all of them with
\* the removal policy off, and with it on all but those whose flags after
\* the fixups have secondary or unmapped set.
C3_WrittenInInputOrder ==
    pc = "done" =>
        /\ Ids(fixed) = UpTo(Len(decoded))
        /\ written = SelectSeq(fixed, Retained)
        /\ ~opts.remove_reads => Ids(written) = UpTo(Len(decoded))

\* A successful run over two templates with the removal policy on, in which
\* a record was left out and the others were written.
C3_Witness ==
    /\ pc = "done"
    /\ opts.remove_reads
    /\ Len(groups) >= 2
    /\ Len(decoded) = MaxRecords
    /\ Len(written) > 0
    /\ Len(written) < Len(decoded)
    /\ written = SelectSeq(fixed, Retained)

Primaries(ids) == {k \in ids : IsPrimary(decoded[k])}

IsUnpaired(r) ==
    /\ r.mtid = -1
    /\ r.mpos = -1
    /\ r.isize = 0
    /\ r.flag \cap {BAM_FPAIRED, BAM_FMREVERSE, BAM_FPROPER_PAIR} = {}

\* C8: after a successful run, a written primary record whose template (the
\* run of consecutive records of its name) has no other primary record has
\* mate reference -1, mate position -1, insert size 0 and the paired,
\* mate-reverse and proper-pair flags cleared.
C8_LonePrimaryIsUnpaired ==
    pc = "done" =>
        \A w \in 1..Len(written) :
            LET id == written[w].id
            IN  Primaries({k \in 1..Len(decoded) : SameRun(id, k)}) = {id}
                    => IsUnpaired(written[w])

\* The same for the groups the driver worked on: a written record that is
\* the only primary of the group next_template returned it in.
LonePrimaryOfGroupIsUnpaired ==
    pc = "done" =>
        \A w \in 1..Len(written) : \A g \in 1..Len(groups) :
            Primaries({groups[g][k] : k \in 1..Len(groups[g])})
                = {written[w].id} => IsUnpaired(written[w])

\* C12: for every template next_template returns, one without any primary
\* record included, the fixups never dereference an absent previous primary.
C12_NoAbsentPrimaryDereferenced ==
    pc = "fixup" => ~FixTemplate(bs.b, bs.n, opts).nullDeref

\* new_cigar[0..j-1] when the trailing loop reaches operation k of the
\* CIGAR, i being the triggering operation.
NewCigarBefore(cigar, pos, end, i, k) ==
    TrimTail(SubSeq(cigar, 1, k - 1), i + 1,
             [nc |-> TrimBranch(cigar[i], RefAfter(cigar, pos, i), end).nc,
              oob |-> FALSE]).nc

\* C13: in bam_trim, whenever a non-hard-clip operation after the
\* triggering one is absorbed, new_cigar[j-1] exists (j >= 1) and is a
\* soft-clip, for every CIGAR and cutoff that reaches the trailing loop.
C13_AbsorbFindsSoftClip ==
    (call.fn = "bam_trim" /\ call.phase \in {"ret", "crash"}) =>
        /\ ~call.res.oob
        /\ \A i \in 1..Len(call.b.cigar) :
              IsTrigger(call.b.cigar, call.b.pos, call.end, i) =>
                \A k \in (i + 1)..Len(call.b.cigar) :
                    NotHard(call.b.cigar[k]) =>
                        LET nc == NewCigarBefore(call.b.cigar, call.b.pos,
                                                 call.end, i, k)
                        IN  /\ Len(nc) >= 1
                            /\ nc[Len(nc)].op = BAM_CSOFT_CLIP

\* C14: whenever bam_trim changes a CIGAR and leaves the record mapped, the
\* query-consuming operations of the new CIGAR add up to what those of the
\* old one did.
C14_TrimKeepsQueryLength ==
    (TrimReturned /\ call.res.b.cigar # call.b.cigar
     /\ BAM_FUNMAP \notin call.res.b.flag) =>
        bam_cigar2qlen(call.res.b.cigar) = bam_cigar2qlen(call.b.cigar)

\* C15: with the default sanitize mask and the proper-pair check enabled,
\* the assertion of plausibly_properly_paired never fails, for any template
\* of any input stream.
C15_AssertionNeverFails ==
    (opts.sanitize_flags = FIX_ALL /\ opts.proper_pair_check) =>
        /\ pc # "aborted"
        /\ pc = "fixup" => ~FixTemplate(bs.b, bs.n, opts).abort

====
